---------------------------- MODULE Spec2Model ----------------------------
(***************************************************************************)
(* Model of server.py, the search1api tool server: start_server, the tool  *)
(* catalog (handle_list_tools) and the dispatch adapter (handle_call_tool  *)
(* with make_search_request).                                              *)
(*                                                                         *)
(* Python values are tagged records: None is [t |-> "null"], a str is      *)
(* [t |-> "str", v |-> ...], a dict is [t |-> "obj", v |-> <<pairs>>] with *)
(* its pairs in insertion order.  Strings are taken to hold no character   *)
(* that json.dumps escapes.                                                *)
(***************************************************************************)
EXTENDS Integers, Sequences, FiniteSets, TLC

VARIABLES apiKey, phase, catalog, pc, name, arguments, client, request,
          calls, answer, data, result, nextClient, open

vars == <<apiKey, phase, catalog, pc, name, arguments, client, request,
          calls, answer, data, result, nextClient, open>>

(* Bounds of the model. *)
MaxClients == 2

(* The invocations that may be in flight at once. *)
Invocations == {"inv1", "inv2"}

--------------------------------------------------------------------------
(* Python / JSON values *)

None == [t |-> "null"]
Str(s) == [t |-> "str", v |-> s]
Num(n) == [t |-> "int", v |-> n]
List(s) == [t |-> "list", v |-> s]
Dict(pairs) == [t |-> "obj", v |-> pairs]
Pair(key, val) == [k |-> key, v |-> val]

(* `key in d` for a dict d *)
Contains(d, key) == \E n \in 1..Len(d.v) : d.v[n].k = key

(* d[key] for a dict d that has the key *)
Item(d, key) == d.v[CHOOSE n \in 1..Len(d.v) : d.v[n].k = key].v

(* d.get(key, default) *)
DictGet(d, key, default) == IF Contains(d, key) THEN Item(d, key) ELSE default

(* Python truth value: None, False, 0, "", [] and {} are false *)
Truthy(x) ==
    CASE x.t = "null" -> FALSE
      [] x.t = "bool" -> x.v
      [] x.t = "int"  -> x.v # 0
      [] x.t = "str"  -> x.v # ""
      [] x.t = "list" -> Len(x.v) > 0
      [] x.t = "obj"  -> Len(x.v) > 0

(* x[key] with a str key: the value, or the exception Python raises *)
Subscript(x, key) ==
    CASE x.t = "obj" /\ Contains(x, key) -> [ok |-> TRUE, value |-> Item(x, key)]
      [] x.t = "obj" /\ ~Contains(x, key) -> [ok |-> FALSE, exc |-> "KeyError"]
      [] OTHER -> [ok |-> FALSE, exc |-> "TypeError"]

(* json.dumps(x) with the default separators ", " and ": " *)
RECURSIVE Dumps(_)
RECURSIVE DumpsItems(_, _)
RECURSIVE DumpsPairs(_, _)
Dumps(x) ==
    CASE x.t = "null" -> "null"
      [] x.t = "bool" -> IF x.v THEN "true" ELSE "false"
      [] x.t = "int"  -> ToString(x.v)
      [] x.t = "str"  -> "\"" \o x.v \o "\""
      [] x.t = "list" -> "[" \o DumpsItems(x.v, 1) \o "]"
      [] x.t = "obj"  -> "{" \o DumpsPairs(x.v, 1) \o "}"
DumpsItems(s, n) ==
    IF n > Len(s) THEN ""
    ELSE (IF n > 1 THEN ", " ELSE "") \o Dumps(s[n]) \o DumpsItems(s, n + 1)
DumpsPairs(s, n) ==
    IF n > Len(s) THEN ""
    ELSE (IF n > 1 THEN ", " ELSE "") \o "\"" \o s[n].k \o "\": "
         \o Dumps(s[n].v) \o DumpsPairs(s, n + 1)

--------------------------------------------------------------------------
(* Module-level configuration *)

API_BASE == "api.search1api.com"
Timeout == 30

(* f'Bearer {API_KEY}': str(None) is "None" *)
Bearer(key) == "Bearer " \o (IF key.t = "null" THEN "None" ELSE key.v)

KeyCheckSkipped(key) == FALSE

(* `not API_KEY` in start_server: unset or empty *)
KeyMissing(key) == ~Truthy(key)

(* handle_list_tools: the descriptors, in order *)
ToolCatalog ==
    << [name |-> "search", required |-> <<"query">>,
        properties |-> <<"query", "max_results", "search_service">>],
       [name |-> "news", required |-> <<"query">>,
        properties |-> <<"query", "max_results", "search_service">>],
       [name |-> "crawl", required |-> <<"url">>,
        properties |-> <<"url">>] >>

--------------------------------------------------------------------------
(* handle_call_tool, per tool branch *)

DispatchedTools == {"search", "news", "crawl", "sitemap"}

RequiredKey(tool) ==
    CASE tool \in {"search", "news"} -> "query"
      [] tool \in {"crawl", "sitemap"} -> "url"

MissingMessage(tool) ==
    CASE tool = "search" -> "Search query is required"
      [] tool = "news" -> "News search query is required"
      [] tool \in {"crawl", "sitemap"} -> "URL is required"

Endpoint(tool) == "/" \o tool

FailureMessage(tool) ==
    CASE tool = "search" -> "Failed to retrieve search results"
      [] tool = "news" -> "Failed to retrieve news results"
      [] tool = "crawl" -> "Failed to crawl URL"
      [] tool = "sitemap" -> "Failed to retrieve sitemap"

ResultKey(tool) == IF tool = "sitemap" THEN "links" ELSE "results"

ArgumentsAbsentFalsy(args) == ~Truthy(args)

(* `arguments is None` *)
ArgumentsAbsent(args) == args = None

RequiredMissingWrongKey(tool, args) == ~Contains(args, "query")

(* the `"query" not in arguments` / `"url" not in arguments` checks *)
RequiredMissing(tool, args) == ~Contains(args, RequiredKey(tool))

RequestDataPassThrough(tool, args) == args

(* request_data *)
RequestData(tool, args) ==
    IF tool \in {"search", "news"}
    THEN Dict(<< Pair("query", Item(args, "query")),
                 Pair("max_results", DictGet(args, "max_results", Num(10))),
                 Pair("search_service",
                      DictGet(args, "search_service", Str("google"))) >>)
    ELSE Dict(<< Pair("url", Item(args, "url")) >>)

Text(s) == [kind |-> "text", text |-> s]
Raise(e, m) == [kind |-> "raise", exc |-> e, msg |-> m]

--------------------------------------------------------------------------
(* make_search_request *)

(* response.raise_for_status() passes *)
IsSuccess(status) == status >= 200 /\ status < 300

RetryOnError(outcome, attempts) == outcome.kind # "http" /\ attempts < 2

(* no loop around client.post: the except branch returns None *)
RetryAfter(outcome, attempts) == FALSE

(* the value make_search_request returns for an outcome of client.post *)
MakeSearchRequest(outcome) ==
    IF outcome.kind # "http" THEN None
    ELSE IF ~IsSuccess(outcome.status) THEN None
    ELSE IF ~outcome.body.json THEN None
    ELSE outcome.body.value

FailedOrEmpty(d) ==
    \/ ~Truthy(d)
    \/ d.t = "obj" /\ Contains(d, "results") /\ ~Truthy(Item(d, "results"))

(* `if not search_data` *)
Failed(d) == ~Truthy(d)

(* what handle_call_tool does with the value make_search_request returned *)
ResultFor(tool, d) ==
    IF Failed(d) THEN Text(FailureMessage(tool))
    ELSE LET s == Subscript(d, ResultKey(tool))
         IN IF s.ok THEN Text(Dumps(s.value))
            ELSE Raise(s.exc, ResultKey(tool))

OpenAfterExitLeak(clients, c, r) ==
    IF r.kind = "raise" THEN clients ELSE clients \ {c}

(* the set of open clients once `async with` is left with result r *)
OpenAfterExit(clients, c, r) == clients \ {c}

(* handle_call_tool run alone, given the outcome of its client.post *)
HandleCallTool(tool, args, outcome) ==
    IF ArgumentsAbsent(args) THEN Text("No arguments provided")
    ELSE IF tool \notin DispatchedTools
         THEN Raise("ValueError", "Unknown tool: " \o tool)
    ELSE IF RequiredMissing(tool, args) THEN Text(MissingMessage(tool))
    ELSE ResultFor(tool, MakeSearchRequest(outcome))

--------------------------------------------------------------------------
(* Inputs *)

ToolNames == {"search", "news", "crawl", "sitemap", "unknown_tool"}

ArgumentValues ==
    { None,
      Dict(<<>>),
      Dict(<< Pair("query", Str("q")) >>),
      Dict(<< Pair("search_service", Str("bing")), Pair("query", Str("q")) >>),
      Dict(<< Pair("max_results", Num(5)), Pair("query", Str("q")),
              Pair("extra", Str("x")) >>),
      Dict(<< Pair("url", Str("http://x")), Pair("query", Str("q")) >>) }

JsonBody(x) == [json |-> TRUE, value |-> x]
TextBody(s) == [json |-> FALSE, text |-> s]
Http(status, body) == [kind |-> "http", status |-> status, body |-> body]

ResultsAB == Dict(<< Pair("results", List(<< Str("a"), Str("b") >>)) >>)

(* how one client.post can end *)
Outcomes ==
    { [kind |-> "transport_error"],
      [kind |-> "timeout"],
      Http(500, JsonBody(ResultsAB)),
      Http(200, TextBody("<html>")),
      Http(200, JsonBody(ResultsAB)),
      Http(200, JsonBody(Dict(<< Pair("results", List(<<>>)) >>))),
      Http(200, JsonBody(Dict(<< Pair("links", List(<< Str("l") >>)) >>))),
      Http(200, JsonBody(Dict(<<>>))),
      Http(200, JsonBody(List(<< Str("a") >>))),
      Http(200, JsonBody(None)),
      Http(200, JsonBody(Dict(<< Pair("results", None) >>))) }

--------------------------------------------------------------------------
(* State machine *)

NoRequest == [kind |-> "none"]
NoAnswer == [kind |-> "none"]
NoResult == [kind |-> "none"]

Init ==
    /\ apiKey \in {None, Str(""), Str("sk-1")}
    /\ phase = "boot"
    /\ catalog = <<>>
    /\ pc = [i \in Invocations |-> "idle"]
    /\ name = [i \in Invocations |-> ""]
    /\ arguments = [i \in Invocations |-> None]
    /\ client = [i \in Invocations |-> 0]
    /\ request = [i \in Invocations |-> NoRequest]
    /\ calls = [i \in Invocations |-> 0]
    /\ answer = [i \in Invocations |-> NoAnswer]
    /\ data = [i \in Invocations |-> None]
    /\ result = [i \in Invocations |-> NoResult]
    /\ nextClient = 0
    /\ open = {}

(* start_server: the key check, then uvicorn.run *)
StartServer ==
    /\ phase = "boot"
    /\ phase' = IF KeyMissing(apiKey) THEN "failed" ELSE "serving"
    /\ UNCHANGED <<apiKey, catalog, pc, name, arguments, client, request,
                   calls, answer, data, result, nextClient, open>>

(* handle_list_tools *)
ListTools ==
    /\ phase = "serving"
    /\ catalog' = ToolCatalog
    /\ UNCHANGED <<apiKey, phase, pc, name, arguments, client, request,
                   calls, answer, data, result, nextClient, open>>

(* handle_call_tool is entered: the None check, then `async with` opens a
   client of its own *)
Receive(i) ==
    /\ phase = "serving"
    /\ pc[i] = "idle"
    /\ \E n \in ToolNames, a \in ArgumentValues :
         /\ name' = [name EXCEPT ![i] = n]
         /\ arguments' = [arguments EXCEPT ![i] = a]
         /\ IF ArgumentsAbsent(a)
            THEN /\ result' = [result EXCEPT ![i] = Text("No arguments provided")]
                 /\ pc' = [pc EXCEPT ![i] = "done"]
                 /\ UNCHANGED <<client, nextClient, open>>
            ELSE /\ nextClient < MaxClients
                 /\ nextClient' = nextClient + 1
                 /\ client' = [client EXCEPT ![i] = nextClient + 1]
                 /\ open' = open \cup {nextClient + 1}
                 /\ pc' = [pc EXCEPT ![i] = "opened"]
                 /\ UNCHANGED result
    /\ UNCHANGED <<apiKey, phase, catalog, request, calls, answer, data>>

(* the if/elif chain on name, the required-field check and request_data *)
Dispatch(i) ==
    /\ pc[i] = "opened"
    /\ IF name[i] \notin DispatchedTools
       THEN /\ result' = [result EXCEPT
                   ![i] = Raise("ValueError", "Unknown tool: " \o name[i])]
            /\ open' = OpenAfterExit(open, client[i], result'[i])
            /\ pc' = [pc EXCEPT ![i] = "done"]
            /\ UNCHANGED request
       ELSE IF RequiredMissing(name[i], arguments[i])
       THEN /\ result' = [result EXCEPT ![i] = Text(MissingMessage(name[i]))]
            /\ open' = OpenAfterExit(open, client[i], result'[i])
            /\ pc' = [pc EXCEPT ![i] = "done"]
            /\ UNCHANGED request
       ELSE IF ~Subscript(arguments[i], RequiredKey(name[i])).ok
       THEN /\ result' = [result EXCEPT
                   ![i] = Raise("KeyError", RequiredKey(name[i]))]
            /\ open' = OpenAfterExit(open, client[i], result'[i])
            /\ pc' = [pc EXCEPT ![i] = "done"]
            /\ UNCHANGED request
       ELSE /\ request' = [request EXCEPT ![i] =
                   [kind |-> "post",
                    client |-> client[i],
                    url |-> "https://" \o API_BASE \o Endpoint(name[i]),
                    endpoint |-> Endpoint(name[i]),
                    authorization |-> Bearer(apiKey),
                    body |-> RequestData(name[i], arguments[i]),
                    timeout |-> Timeout]]
            /\ pc' = [pc EXCEPT ![i] = "posting"]
            /\ UNCHANGED <<result, open>>
    /\ UNCHANGED <<apiKey, phase, catalog, name, arguments, client, calls,
                   answer, data, nextClient>>

(* make_search_request: client.post is sent *)
Post(i) ==
    /\ pc[i] = "posting"
    /\ calls' = [calls EXCEPT ![i] = calls[i] + 1]
    /\ pc' = [pc EXCEPT ![i] = "awaiting"]
    /\ UNCHANGED <<apiKey, phase, catalog, name, arguments, client, request,
                   answer, data, result, nextClient, open>>

(* make_search_request: client.post ends, raise_for_status, response.json *)
Answer(i) ==
    /\ pc[i] = "awaiting"
    /\ \E o \in Outcomes :
         /\ answer' = [answer EXCEPT ![i] = o]
         /\ IF RetryAfter(o, calls[i])
            THEN /\ pc' = [pc EXCEPT ![i] = "posting"]
                 /\ UNCHANGED data
            ELSE /\ data' = [data EXCEPT ![i] = MakeSearchRequest(o)]
                 /\ pc' = [pc EXCEPT ![i] = "responded"]
    /\ UNCHANGED <<apiKey, phase, catalog, name, arguments, client, request,
                   calls, result, nextClient, open>>

DataShared(i) ==
    data[CHOOSE j \in Invocations : pc[j] = "responded"]

(* the value the branch reads after its await *)
DataOf(i) == data[i]

(* `if not search_data` ... return, leaving `async with` *)
Finish(i) ==
    /\ pc[i] = "responded"
    /\ result' = [result EXCEPT ![i] = ResultFor(name[i], DataOf(i))]
    /\ open' = OpenAfterExit(open, client[i], result'[i])
    /\ pc' = [pc EXCEPT ![i] = "done"]
    /\ UNCHANGED <<apiKey, phase, catalog, name, arguments, client, request,
                   calls, answer, data, nextClient>>

(* the result goes back to the caller; nothing of the invocation is kept *)
Return(i) ==
    /\ pc[i] = "done"
    /\ pc' = [pc EXCEPT ![i] = "idle"]
    /\ name' = [name EXCEPT ![i] = ""]
    /\ arguments' = [arguments EXCEPT ![i] = None]
    /\ client' = [client EXCEPT ![i] = 0]
    /\ request' = [request EXCEPT ![i] = NoRequest]
    /\ calls' = [calls EXCEPT ![i] = 0]
    /\ answer' = [answer EXCEPT ![i] = NoAnswer]
    /\ data' = [data EXCEPT ![i] = None]
    /\ result' = [result EXCEPT ![i] = NoResult]
    /\ UNCHANGED <<apiKey, phase, catalog, nextClient, open>>

Next ==
    \/ StartServer
    \/ ListTools
    \/ \E i \in Invocations : Receive(i)
    \/ \E i \in Invocations : Dispatch(i)
    \/ \E i \in Invocations : Post(i)
    \/ \E i \in Invocations : Answer(i)
    \/ \E i \in Invocations : Finish(i)
    \/ \E i \in Invocations : Return(i)

Spec == Init /\ [][Next]_vars

--------------------------------------------------------------------------
(* Properties *)

(* the tools the specification names *)
SpecTools == {"search", "news", "crawl"}

SpecRequired(tool) == IF tool = "crawl" THEN "url" ELSE "query"

SpecMissingText(tool) ==
    CASE tool = "search" -> "Search query is required"
      [] tool = "news" -> "News search query is required"
      [] tool = "crawl" -> "URL is required"

SpecFailureText(tool) ==
    CASE tool = "search" -> "Failed to retrieve search results"
      [] tool = "news" -> "Failed to retrieve news results"
      [] tool = "crawl" -> "Failed to crawl URL"

Entered(i) == pc[i] # "idle"
Ended(i) == pc[i] = "done"
Present(i) == Entered(i) /\ arguments[i] # None
Valid(i) ==
    /\ Present(i)
    /\ name[i] \in SpecTools
    /\ Contains(arguments[i], SpecRequired(name[i]))
PastDispatch(i) == pc[i] \in {"posting", "awaiting", "responded", "done"}
Answered(i) == pc[i] \in {"responded", "done"} /\ answer[i] # NoAnswer

(* C1: an invocation with arguments present and a name other than search,
   news, crawl ends by raising the unknown-tool error, returns no text and
   makes no outbound call *)
C1_UnknownToolRaises ==
    \A i \in Invocations :
        (Present(i) /\ name[i] \notin SpecTools) =>
            /\ calls[i] = 0
            /\ request[i] = NoRequest
            /\ Ended(i) => /\ result[i].kind = "raise"
                           /\ result[i].exc = "ValueError"

(* transport error, timeout, non-2xx status, or a body that is not JSON, is
   not an object, or has no `results` key *)
UpstreamError(o) ==
    \/ o.kind \in {"transport_error", "timeout"}
    \/ /\ o.kind = "http"
       /\ \/ o.status < 200
          \/ o.status > 299
          \/ ~o.body.json
          \/ o.body.value.t # "obj"
          \/ ~Contains(o.body.value, "results")

(* C2: for search, news and crawl with valid arguments, an outbound call
   that ends in an upstream error yields the tool's Failure text and never
   raises *)
C2_UpstreamErrorIsFailure ==
    \A i \in Invocations :
        (Ended(i) /\ Valid(i) /\ Answered(i) /\ UpstreamError(answer[i])) =>
            result[i] = Text(SpecFailureText(name[i]))

(* C3: an outbound call is attempted only when the required field is
   present; a known tool without its required field returns the tool's
   "required" text with no outbound call *)
C3_RequiredFieldBeforeCall ==
    \A i \in Invocations :
        /\ (calls[i] > 0 \/ request[i] # NoRequest) =>
              /\ Present(i)
              /\ Contains(arguments[i],
                          IF name[i] \in {"search", "news"} THEN "query" ELSE "url")
        /\ (Present(i) /\ name[i] \in SpecTools /\ ~Valid(i)) =>
              /\ calls[i] = 0
              /\ request[i] = NoRequest
              /\ Ended(i) => result[i] = Text(SpecMissingText(name[i]))

C3_Witness ==
    \E i \in Invocations :
        /\ Ended(i)
        /\ name[i] = "crawl"
        /\ arguments[i] = Dict(<< Pair("query", Str("q")) >>)
        /\ result[i] = Text("URL is required")
        /\ calls[i] = 0

(* C4: an invocation that passes validation has made exactly one outbound
   call when it returns, whatever the outcome; no invocation ever makes
   more than one *)
C4_ExactlyOneCall ==
    \A i \in Invocations :
        /\ calls[i] <= 1
        /\ (Ended(i) /\ Valid(i)) => calls[i] = 1

C4_Witness ==
    \E i \in Invocations :
        /\ Ended(i)
        /\ Valid(i)
        /\ answer[i] = [kind |-> "timeout"]
        /\ calls[i] = 1

(* C5: absent arguments end the invocation at once with "No arguments
   provided", for every tool name, with no client opened and no outbound
   call; an empty mapping is not absent *)
C5_AbsentArguments ==
    \A i \in Invocations :
        /\ (Entered(i) /\ arguments[i] = None) =>
              /\ Ended(i)
              /\ result[i] = Text("No arguments provided")
              /\ client[i] = 0
              /\ calls[i] = 0
              /\ request[i] = NoRequest
        /\ (Ended(i) /\ arguments[i] # None) =>
              result[i] # Text("No arguments provided")

C5_Witness ==
    /\ \E i \in Invocations :
          /\ Ended(i)
          /\ arguments[i] = None
          /\ name[i] = "unknown_tool"
          /\ result[i] = Text("No arguments provided")
    /\ \E i \in Invocations :
          /\ Ended(i)
          /\ arguments[i] = Dict(<<>>)
          /\ name[i] = "search"

(* C6: for search, news and crawl with valid arguments, a success status
   with a JSON object that has `results` yields one text item holding the
   JSON serialization of that `results` value, an empty list included *)
C6_SuccessIsSerializedResults ==
    \A i \in Invocations :
        ( /\ Ended(i)
          /\ Valid(i)
          /\ Answered(i)
          /\ ~UpstreamError(answer[i]) ) =>
            LET r == Item(answer[i].body.value, "results")
            IN /\ result[i] = Text(Dumps(r))
               /\ r = List(<< Str("a"), Str("b") >>) =>
                     result[i].text = "[\"a\", \"b\"]"
               /\ r = List(<<>>) => result[i].text = "[]"
               /\ r = None => result[i].text = "null"

C6_Witness ==
    \E i \in Invocations :
        /\ Ended(i)
        /\ name[i] = "crawl"
        /\ Valid(i)
        /\ answer[i] = Http(200, JsonBody(Dict(<< Pair("results", List(<<>>)) >>)))
        /\ result[i] = Text("[]")

Keys(d) == {d.v[n].k : n \in 1..Len(d.v)}

(* C7: search and news post to /search and /news a body of exactly query,
   max_results (the caller's or 10) and search_service (the caller's or
   "google"); crawl posts exactly {url} to /crawl *)
C7_ProviderRequest ==
    \A i \in Invocations :
        (Valid(i) /\ PastDispatch(i)) =>
            /\ request[i].kind = "post"
            /\ request[i].endpoint = "/" \o name[i]
            /\ LET b == request[i].body
                   a == arguments[i]
               IN IF name[i] = "crawl"
                  THEN b = Dict(<< Pair("url", Item(a, "url")) >>)
                  ELSE /\ Len(b.v) = 3
                       /\ Keys(b) = {"query", "max_results", "search_service"}
                       /\ Item(b, "query") = Item(a, "query")
                       /\ Item(b, "max_results") =
                            IF Contains(a, "max_results")
                            THEN Item(a, "max_results") ELSE Num(10)
                       /\ Item(b, "search_service") =
                            IF Contains(a, "search_service")
                            THEN Item(a, "search_service") ELSE Str("google")

C7_Witness ==
    \E i \in Invocations :
        /\ pc[i] = "awaiting"
        /\ name[i] = "search"
        /\ arguments[i] = Dict(<< Pair("query", Str("q")) >>)
        /\ request[i].endpoint = "/search"
        /\ request[i].body =
              Dict(<< Pair("query", Str("q")), Pair("max_results", Num(10)),
                      Pair("search_service", Str("google")) >>)

InFlight(i) == pc[i] \in {"opened", "posting", "awaiting", "responded"}

(* C8: a client an invocation opened is released when the invocation ends,
   on every exit path; each invocation opens a client no invocation had
   before, and no two invocations share one *)
C8_ClientReleased ==
    /\ [](\A i \in Invocations :
            /\ InFlight(i) => client[i] \in open
            /\ ~InFlight(i) => client[i] \notin open
            /\ request[i] # NoRequest => request[i].client = client[i]
            /\ \A j \in Invocations \ {i} :
                  client[i] # 0 => client[i] # client[j])
    /\ [](open = {client[i] : i \in {j \in Invocations : InFlight(j)}})
    /\ [][\A i \in Invocations :
            (pc[i] = "idle" /\ pc'[i] = "opened") =>
                /\ client'[i] > nextClient
                /\ client'[i] \notin open
                /\ nextClient' >= client'[i]]_vars

C8_Witness ==
    \E i \in Invocations :
        /\ Ended(i)
        /\ result[i].kind = "raise"
        /\ result[i].exc = "KeyError"
        /\ client[i] # 0
        /\ client[i] \notin open

(* C9: under every interleaving, each invocation's result is the result of
   handle_call_tool run alone on its own name, arguments and outcome, and
   a step of one invocation leaves the other invocations' data as it was *)
C9_Independent ==
    /\ [](\A i \in Invocations :
            Ended(i) => result[i] = HandleCallTool(name[i], arguments[i], answer[i]))
    /\ [][\A i \in Invocations :
            (pc'[i] # pc[i]) =>
                \A j \in Invocations \ {i} :
                    /\ pc'[j] = pc[j]
                    /\ name'[j] = name[j]
                    /\ arguments'[j] = arguments[j]
                    /\ client'[j] = client[j]
                    /\ request'[j] = request[j]
                    /\ calls'[j] = calls[j]
                    /\ answer'[j] = answer[j]
                    /\ data'[j] = data[j]
                    /\ result'[j] = result[j]]_vars

C9_Witness ==
    \E i \in Invocations : \E j \in Invocations \ {i} :
        /\ Ended(i)
        /\ pc[j] = "responded"
        /\ Answered(i)
        /\ answer[i] # answer[j]
        /\ result[i].kind = "text"
        /\ data[i] # data[j]

(* C10: with the API key missing, start-up fails before the listener
   starts: nothing is ever served, no outbound call is made, and no
   invocation reports the missing key *)
C10_MissingKeyFatal ==
    (apiKey = None \/ apiKey = Str("")) =>
        /\ phase # "serving"
        /\ catalog = <<>>
        /\ \A i \in Invocations :
              /\ pc[i] = "idle"
              /\ calls[i] = 0
              /\ request[i] = NoRequest
              /\ result[i] = NoResult

C10_Witness ==
    /\ apiKey = None
    /\ phase = "failed"

==========================================================================
